---- MODULE Spec2Model ----
(***************************************************************************)
(* Model of handwriting_processor/main.py: the `process` command (file     *)
(* discovery, setup checks, per-document page fan-out over a thread pool,  *)
(* join, render, tally, exit code) and the `config --setup` command.       *)
(* Text is modelled as sequences of one-character strings.                 *)
(***************************************************************************)
EXTENDS Integers, Sequences, FiniteSets, TLC

\* ------------------------------------------------------------------ bounds
MaxPages == 3
MaxFiles == 2
MaxSetupRuns == 2

\* ------------------------------------------------------- text primitives
IsSpace(c) == c \in {" ", "\n", "\t"}

RECURSIVE LStrip(_)
LStrip(s) == IF s = <<>> THEN <<>>
             ELSE IF IsSpace(Head(s)) THEN LStrip(Tail(s)) ELSE s

RECURSIVE RStrip(_)
RStrip(s) == IF s = <<>> THEN <<>>
             ELSE IF IsSpace(s[Len(s)]) THEN RStrip(SubSeq(s, 1, Len(s) - 1)) ELSE s

\* str.strip()
Strip(s) == RStrip(LStrip(s))

\* "\n\n".join(page_results)
RECURSIVE JoinPages(_)
JoinPages(ps) == IF ps = <<>> THEN <<>>
                 ELSE IF Len(ps) = 1 THEN ps[1]
                 ELSE ps[1] \o <<"\n", "\n">> \o JoinPages(Tail(ps))

\* truthiness of full_text.strip() at line 186
HasText(full) == Strip(full) # <<>>

\* str(page_index + 1) for the page numbers the model can reach
Digits == <<"0", "1", "2", "3", "4", "5", "6", "7", "8", "9">>
PageNumStr(n) == <<Digits[n + 1]>>

\* f"Error: {e}"  (ocr_image_with_gemini, line 138)
OcrErrorText(e) == <<"E", "r", "r", "o", "r", ":", " ">> \o e

\* f"Error processing page {page_index + 1}: {exc}"  (line 179)
PageErrorText(i, exc) ==
    <<"E", "r", "r", "o", "r", " ", "p", "a", "g", "e", " ">> \o PageNumStr(i + 1)
        \o <<":", " ">> \o exc

\* ------------------------------------------------- external collaborators
\* What the OCR service can answer for the image of page i (0-based): the
\* page's own text, nothing, or blank space.
Glyphs == <<"a", "b", "c", "d", "e", "f">>
Responses(i) == { <<Glyphs[i + 1]>>, <<>>, <<" ">> }

\* str(e) of an exception; the empty message is possible
ErrMsgs == { <<>>, <<"q">> }

\* --------------------------------------------------------- the file tree
\* dir = "" is the input directory itself, anything else a sub-directory.
File(d, b, e) == [dir |-> d, base |-> b, ext |-> e]
UniverseSeq == << File("", "x", "pdf"), File("sub", "x", "pdf"),
                  File("", "y", "Pdf"), File("sub", "z", "JPG"),
                  File("", "n", "txt") >>
Universe == { UniverseSeq[k] : k \in 1..Len(UniverseSeq) }

\* str.lower() on the extensions that occur
Lower(e) == CASE e \in {"pdf", "PDF", "Pdf"} -> "pdf"
              [] e \in {"png", "PNG"} -> "png"
              [] e \in {"jpg", "JPG"} -> "jpg"
              [] e \in {"jpeg", "JPEG"} -> "jpeg"
              [] OTHER -> e

\* the extension list of the batch loop, line 232
GlobExts == <<"pdf", "PDF", "png", "PNG", "jpg", "JPG", "jpeg", "JPEG">>

\* glob.glob(os.path.join(input_path, ext)): direct children only,
\* case-sensitive match of the extension
GlobTop(t, e) == SelectSeq(UniverseSeq, LAMBDA f : f \in t /\ f.dir = "" /\ f.ext = e)

\* glob.glob(os.path.join(input_path, '**', ext), recursive=True): '**'
\* matches zero or more directories, so direct children match as well
GlobRec(t, e) == SelectSeq(UniverseSeq, LAMBDA f : f \in t /\ f.ext = e)

\* the loop of lines 232-234 from extension number k on
RECURSIVE DiscoverFrom(_, _)
DiscoverFrom(t, k) == IF k > Len(GlobExts) THEN <<>>
                      ELSE GlobTop(t, GlobExts[k]) \o GlobRec(t, GlobExts[k])
                               \o DiscoverFrom(t, k + 1)
Discover(t) == DiscoverFrom(t, 1)

\* os.path.splitext(input_filename)[0] + ".md"
OutputName(f) == <<f.base, ".md">>

\* number of images get_images can return for a path: none on an
\* unsupported type or a decoding error
PageCounts(f) == CASE Lower(f.ext) = "pdf" -> 0..MaxPages
                   [] Lower(f.ext) \in {"png", "jpg", "jpeg"} -> {0, 1}
                   [] OTHER -> {0}

Supported(f) == Lower(f.ext) \in {"pdf", "png", "jpg", "jpeg"}

\* --------------------------------------------------- configuration file
Absent == "absent"
\* yaml.dump(default_config) of setup_config
DefaultConfig == "gemini: {model: gemini-1.5-pro} template: {variables: {}} output: {encoding: utf-8}"
ExistingConfig == "existing: config"
ConfigContents == {Absent, DefaultConfig, ExistingConfig}

\* os.path.exists(config_path)
Exists(content) == content # Absent

\* setup_config(): the content of the file at the config path afterwards
SetupConfigClobber(content) == DefaultConfig
setup_config(content) == IF Exists(content) THEN content ELSE DefaultConfig

\* ------------------------------------------------------------------ state
VARIABLES
    cmd,            \* the sub-command of this run: "process" or "config"
    configFile,     \* content of the file at the config path
    setupRuns,      \* number of `config --setup` runs so far
    firstContent,   \* content of the config file after the first run
    inputKind,      \* args.input_path is a "file", a "dir" or "missing"
    tree,           \* the files at or below args.input_path
    outputDirExists,
    apiKey,         \* GEMINI_API_KEY is set
    pc,             \* position in process_command
    input_paths,
    idx,            \* number of entries of input_paths already consumed
    successful,
    failed,
    exitCode,       \* -1 while running, else the process exit status
    page_results,   \* slot k+1 holds the text of page k
    futures,        \* page index -> state of the submitted task
    running,        \* tasks submitted to a pool and not finished
    collected,      \* page indexes as_completed has yielded
    outFiles,       \* names of the files written into the output directory
    fullText,       \* full_text of the current call of process_single_file
    lastRet,        \* what the current call of process_single_file returned
    lastRender,     \* what render_markdown did in the current call
    extracted,      \* get_images has been called
    ocrCalled,      \* ocr_image_with_gemini has been called
    results,        \* return values of process_single_file, in call order
    outOfOrder,     \* in the current call a page was collected before an earlier page
    anyRenderFailed \* render_markdown has caught an exception in this run

vars == << cmd, configFile, setupRuns, firstContent, inputKind, tree,
           outputDirExists, apiKey, pc, input_paths, idx, successful, failed,
           exitCode, page_results, futures, running, collected, outFiles,
           fullText, lastRet, lastRender, extracted, ocrCalled, results,
           outOfOrder, anyRenderFailed >>

cfgVars == << configFile, setupRuns, firstContent >>
envVars == << cmd, inputKind, tree, outputDirExists, apiKey >>
tallyVars == << successful, failed, results, lastRet, lastRender, fullText, outFiles,
               anyRenderFailed >>
poolVars == << page_results, futures, running, collected, outOfOrder >>

Pending == [state |-> "pending", raised |-> FALSE, payload |-> <<>>, ocrFailed |-> FALSE]
Done(r, p, o) == [state |-> "done", raised |-> r, payload |-> p, ocrFailed |-> o]

InitProcess ==
    /\ cmd = "process"
    /\ configFile = Absent
    /\ \/ inputKind = "missing" /\ tree = {}
       \/ inputKind = "file" /\ \E f \in Universe : tree = {f}
       \/ inputKind = "dir" /\ tree \in { t \in SUBSET Universe : Cardinality(t) <= MaxFiles }
    /\ outputDirExists \in BOOLEAN
    /\ apiKey \in BOOLEAN

InitConfig ==
    /\ cmd = "config"
    /\ configFile \in ConfigContents
    /\ inputKind = "missing" /\ tree = {}
    /\ outputDirExists = FALSE
    /\ apiKey = FALSE

Init ==
    /\ InitProcess \/ InitConfig
    /\ setupRuns = 0
    /\ firstContent = Absent
    /\ pc = "start"
    /\ input_paths = <<>>
    /\ idx = 0
    /\ successful = 0
    /\ failed = 0
    /\ exitCode = -1
    /\ page_results = <<>>
    /\ futures = <<>>
    /\ running = {}
    /\ collected = {}
    /\ outFiles = {}
    /\ fullText = <<>>
    /\ lastRet = "none"
    /\ lastRender = "none"
    /\ extracted = FALSE
    /\ ocrCalled = FALSE
    /\ results = <<>>
    /\ outOfOrder = FALSE
    /\ anyRenderFailed = FALSE

\* sys.exit(code)
Exit(code) == pc' = "done" /\ exitCode' = code

\* ------------------------------------------------------ config --setup
SetupConfig ==
    /\ cmd = "config"
    /\ setupRuns < MaxSetupRuns
    /\ configFile' = setup_config(configFile)
    /\ setupRuns' = setupRuns + 1
    /\ firstContent' = IF setupRuns = 0 THEN configFile' ELSE firstContent
    /\ UNCHANGED << envVars, pc, input_paths, idx, exitCode, extracted, ocrCalled >>
    /\ UNCHANGED << tallyVars, poolVars >>

\* ------------------------------------------------ process: setup checks
\* lines 226-241
ResolveInput ==
    /\ cmd = "process" /\ pc = "start"
    /\ CASE inputKind = "file" ->
              /\ input_paths' = << CHOOSE f \in tree : TRUE >>
              /\ pc' = "checkout" /\ UNCHANGED exitCode
         [] inputKind = "dir" ->
              /\ input_paths' = Discover(tree)
              /\ IF input_paths' = <<>> THEN Exit(1)
                 ELSE pc' = "checkout" /\ UNCHANGED exitCode
         [] OTHER ->
              /\ UNCHANGED input_paths
              /\ Exit(1)
    /\ UNCHANGED << envVars, cfgVars, idx, extracted, ocrCalled >>
    /\ UNCHANGED << tallyVars, poolVars >>

\* lines 243-245
CheckOutputDir ==
    /\ pc = "checkout"
    /\ IF outputDirExists THEN pc' = "configure" /\ UNCHANGED exitCode ELSE Exit(1)
    /\ UNCHANGED << envVars, cfgVars, input_paths, idx, extracted, ocrCalled >>
    /\ UNCHANGED << tallyVars, poolVars >>

\* configure_genai(): raises ValueError when the key is not set
ConfigureGenaiLenient(key) == "ok"
configure_genai(key) == IF key THEN "ok" ELSE "raise"

\* lines 247-252 and 269-271: an exception of the setup ends the run
Configure ==
    /\ pc = "configure"
    /\ IF configure_genai(apiKey) = "ok" THEN pc' = "loop" /\ UNCHANGED exitCode ELSE Exit(1)
    /\ UNCHANGED << envVars, cfgVars, input_paths, idx, extracted, ocrCalled >>
    /\ UNCHANGED << tallyVars, poolVars >>

\* ------------------------------------------- process: one document at a time
Pages == DOMAIN futures
CurrentFile == input_paths[idx + 1]

\* lines 257-259, 157-169: take the next path, extract its images and
\* submit one task per page; no images fails the document
BeginFile ==
    /\ pc = "loop" /\ idx < Len(input_paths)
    /\ extracted' = TRUE
    /\ \E n \in PageCounts(CurrentFile) :
         IF n = 0
         THEN /\ failed' = failed + 1
              /\ results' = Append(results, FALSE)
              /\ lastRet' = "false"
              /\ idx' = idx + 1
              /\ page_results' = <<>> /\ futures' = <<>> /\ collected' = {}
              /\ UNCHANGED << pc, successful, running >>
         ELSE /\ page_results' = [k \in 1..n |-> <<>>]
              /\ futures' = [i \in 0..(n - 1) |-> Pending]
              /\ running' = running \cup { [doc |-> idx, page |-> i] : i \in 0..(n - 1) }
              /\ collected' = {}
              /\ lastRet' = "none"
              /\ pc' = "pages"
              /\ UNCHANGED << idx, successful, failed, results >>
    /\ fullText' = <<>> /\ lastRender' = "none" /\ outOfOrder' = FALSE
    /\ UNCHANGED << outFiles, anyRenderFailed >>
    /\ UNCHANGED << envVars, cfgVars, input_paths, exitCode, ocrCalled >>

\* What a task can end with: ocr_image_with_gemini returns the response
\* text, or the error string of a failed call (lines 130-138); or the task
\* itself raises.
Outcomes(i) ==
    { Done(FALSE, r, FALSE) : r \in Responses(i) }
        \cup { Done(FALSE, OcrErrorText(e), TRUE) : e \in ErrMsgs }
        \cup { Done(TRUE, e, FALSE) : e \in ErrMsgs }

\* a worker thread finishes the task t
TaskRun(t) ==
    /\ t \in running
    /\ running' = running \ {t}
    /\ ocrCalled' = TRUE
    /\ IF pc = "pages" /\ t.doc = idx
       THEN \E o \in Outcomes(t.page) : futures' = [futures EXCEPT ![t.page] = o]
       ELSE UNCHANGED futures
    /\ UNCHANGED << envVars, cfgVars, pc, input_paths, idx, exitCode, extracted,
                    page_results, collected, outOfOrder, tallyVars >>

\* future_to_page[future]: the slot the result of page i is written to
SlotByArrival(i, done) == Cardinality(done)
SlotOf(i, done) == i

\* the text stored for a finished future, lines 174-181
ResultOnly(i, fut) == IF fut.raised THEN <<>> ELSE fut.payload
ResultText(i, fut) == IF fut.raised THEN PageErrorText(i, fut.payload) ELSE fut.payload

\* one iteration of the as_completed loop, lines 172-182
Collect(i) ==
    /\ pc = "pages"
    /\ i \in Pages \ collected
    /\ futures[i].state = "done"
    /\ page_results' = [page_results EXCEPT ![SlotOf(i, collected) + 1] = ResultText(i, futures[i])]
    /\ collected' = collected \cup {i}
    /\ outOfOrder' = (outOfOrder \/ \E j \in Pages \ collected : j < i)
    /\ UNCHANGED << envVars, cfgVars, pc, input_paths, idx, exitCode, extracted,
                    ocrCalled, futures, running, tallyVars >>

\* the as_completed loop has yielded every future and the executor's
\* with-block has shut the pool down, waiting for its tasks (lines 168-182)
PoolFirstDone(done, f, r, d) == done # {}
PoolDrained(done, f, r, d) ==
    /\ done = DOMAIN f
    /\ \A t \in r : t.doc # d

\* the renderer is invoked iff the joined text has something but blanks
ShouldRenderLoose(full) == full # <<>>
ShouldRender(full) == HasText(full)

\* what process_single_file returns after calling render_markdown (line 215)
RenderReturn(ok) == TRUE

\* lines 184-218 and 259-262: join, render, return, tally
FinishFile ==
    /\ pc = "pages"
    /\ PoolDrained(collected, futures, running, idx)
    /\ fullText' = JoinPages(page_results)
    /\ IF ShouldRender(fullText')
       THEN \E ok \in BOOLEAN :
              /\ lastRender' = IF ok THEN "ok" ELSE "failed"
              /\ outFiles' = IF ok THEN outFiles \cup {OutputName(CurrentFile)} ELSE outFiles
              /\ anyRenderFailed' = (anyRenderFailed \/ ~ok)
              /\ lastRet' = IF RenderReturn(ok) THEN "true" ELSE "false"
       ELSE /\ lastRender' = "none"
            /\ lastRet' = "false"
            /\ UNCHANGED << outFiles, anyRenderFailed >>
    /\ results' = Append(results, lastRet' = "true")
    /\ successful' = IF lastRet' = "true" THEN successful + 1 ELSE successful
    /\ failed' = IF lastRet' = "true" THEN failed ELSE failed + 1
    /\ idx' = idx + 1
    /\ pc' = "loop"
    /\ UNCHANGED << envVars, cfgVars, input_paths, exitCode, extracted, ocrCalled, poolVars >>

\* the exit status of a finished tally, lines 266-267
ExitCodeOf(f) == IF f > 0 THEN 1 ELSE 0

\* lines 264-267
Finish ==
    /\ pc = "loop" /\ idx = Len(input_paths)
    /\ Exit(ExitCodeOf(failed))
    /\ UNCHANGED << envVars, cfgVars, input_paths, idx, extracted, ocrCalled >>
    /\ UNCHANGED << tallyVars, poolVars >>

Next ==
    \/ SetupConfig
    \/ ResolveInput
    \/ CheckOutputDir
    \/ Configure
    \/ BeginFile
    \/ \E t \in running : TaskRun(t)
    \/ \E i \in Pages : Collect(i)
    \/ FinishFile
    \/ Finish

Spec == Init /\ [][Next]_vars

TypeOK ==
    /\ cmd \in {"process", "config"}
    /\ pc \in {"start", "checkout", "configure", "loop", "pages", "done"}
    /\ exitCode \in {-1, 0, 1}
    /\ successful + failed = idx
    /\ Len(results) = idx

\* ------------------------------------------------------------ properties
\* the run got past the setup checks and went through the whole list
PassedSetup == cmd = "process" /\ input_paths # <<>> /\ idx = Len(input_paths) /\ pc = "done"

\* the current call of process_single_file has returned after its page loop
Joined == lastRet # "none" /\ page_results # <<>>

\* the text the task of page i handed back, as the collector stores it
Expected(i) == IF futures[i].raised THEN PageErrorText(i, futures[i].payload)
               ELSE futures[i].payload

Blank(text) == \A k \in 1..Len(text) : IsSpace(text[k])

\* C1: whatever the order in which the page tasks complete, the result of
\* the task submitted for page i is in slot i and in no other slot (a slot
\* not yet collected is still empty), and the joined full text is the page
\* texts in page order 0..N-1.
C1_PageOrder ==
    /\ \A k \in 1..Len(page_results) :
          page_results[k] = IF (k - 1) \in collected THEN Expected(k - 1) ELSE <<>>
    /\ Joined => fullText = JoinPages([k \in 1..Len(page_results) |-> Expected(k - 1)])

\* a three-page document whose pages were collected out of order and joined
C1_Witness ==
    /\ lastRet = "true" /\ outOfOrder
    /\ fullText = <<"a", "\n", "\n", "b", "\n", "\n", "c">>

\* C2: failed pages do not abort the batch: once the page loop is over the
\* result sequence has one entry per page, the slot of every failed page
\* (failed OCR call or raising task) holds a non-empty error text, and the
\* slot of every other page holds the service's response for that page.
C2_FailuresAbsorbed ==
    Joined =>
        /\ Len(page_results) = Cardinality(Pages)
        /\ collected = Pages
        /\ \A i \in Pages :
              IF futures[i].raised \/ futures[i].ocrFailed
              THEN page_results[i + 1] # <<>> /\ ~Blank(page_results[i + 1])
              ELSE page_results[i + 1] \in Responses(i)

\* page 2 of 3 raised with an empty message, pages 1 and 3 kept their text
C2_Witness ==
    /\ Joined /\ Cardinality(Pages) = 3
    /\ futures[1].raised /\ futures[1].payload = <<>>
    /\ page_results[1] = <<"a">> /\ page_results[3] = <<"c">>
    /\ lastRet = "true"

\* C3: a run that passed the setup checks exits non-zero exactly when some
\* document failed, a document whose rendering failed included.
C3_ExitCode ==
    PassedSetup =>
        (exitCode # 0 <=> (anyRenderFailed \/ \E k \in 1..Len(results) : ~results[k]))

\* C4: a document whose rendering failed is reported as failed by
\* process_single_file and counted as failed, and the run goes on.
C4_RenderFailureFails ==
    lastRender = "failed" => (lastRet = "false" /\ failed >= 1 /\ pc = "loop")

\* C5: when every page text is empty or blank, finishing the document
\* invokes no renderer, writes no output file and counts the document as
\* failed.
C5_BlankDocument ==
    [][ (pc = "pages" /\ pc' = "loop" /\ \A k \in 1..Len(page_results) : Blank(page_results[k]))
          => /\ lastRender' = "none"
             /\ outFiles' = outFiles
             /\ lastRet' = "false"
             /\ failed' = failed + 1 /\ successful' = successful ]_vars

\* a two-page document, one page blank and one empty, reported as failed
C5_Witness ==
    /\ pc = "loop" /\ lastRet = "false" /\ lastRender = "none"
    /\ page_results = << <<" ">>, <<>> >>
    /\ fullText = <<" ", "\n", "\n">>
    /\ outFiles = {}

\* one of the fatal setup conditions holds for this run
FatalSetup ==
    \/ inputKind = "missing"
    \/ inputKind = "dir" /\ \A f \in tree : f.ext \notin {"pdf", "PDF", "png", "PNG", "jpg", "JPG", "jpeg", "JPEG"}
    \/ ~outputDirExists
    \/ ~apiKey

\* C6: under a fatal setup condition the run never reaches a document (no
\* image extraction, no transcription call, no output file) and ends with
\* exit status 1.
C6_FailFast ==
    (cmd = "process" /\ FatalSetup) =>
        /\ ~extracted /\ ~ocrCalled /\ outFiles = {} /\ running = {} /\ idx = 0
        /\ pc \in {"start", "checkout", "configure", "done"}
        /\ pc = "done" => exitCode = 1

\* the API key alone is missing: the run has ended with status 1
C6_Witness ==
    /\ pc = "done" /\ exitCode = 1
    /\ inputKind = "dir" /\ Len(input_paths) >= 2 /\ outputDirExists /\ ~apiKey
    /\ ~extracted /\ ~ocrCalled

\* C7: setup_config leaves an existing configuration file as it is, and
\* after every run the file is what it was after the first run.
C7_NoOverwrite ==
    [][ /\ Exists(configFile) => configFile' = configFile
        /\ setupRuns' >= 1 => configFile' = firstContent' ]_vars

\* two runs over a user's file, still the user's file
C7_Witness == setupRuns = 2 /\ configFile = ExistingConfig /\ firstContent = ExistingConfig

\* C8: at the end of a run the output directory holds one file per document
\* counted as successful.
C8_OneFilePerSuccess == PassedSetup => Cardinality(outFiles) = successful

\* the supported files of the input directory
SupportedFiles == { f \in tree : Supported(f) }

\* C9: for a directory, the list the run iterates holds every supported
\* file below it exactly once, and successful + failed is their number.
C9_DiscoverOnce ==
    (cmd = "process" /\ inputKind = "dir" /\ pc # "start") =>
        /\ { input_paths[k] : k \in 1..Len(input_paths) } = SupportedFiles
        /\ \A j, k \in 1..Len(input_paths) : input_paths[j] = input_paths[k] => j = k
        /\ PassedSetup => successful + failed = Cardinality(SupportedFiles)

\* C10: every page task in flight belongs to the document being processed,
\* none is in flight between documents, and a document is joined only
\* after each of its page tasks has finished.
C10_OneDocumentAtATime ==
    /\ \A t \in running : pc = "pages" /\ t.doc = idx
    /\ Joined => \A i \in Pages : futures[i].state = "done"

\* the second document's pages are in flight after the first was rendered
C10_Witness ==
    /\ pc = "pages" /\ idx = 1 /\ successful = 1
    /\ Cardinality(running) >= 2

====
